---- MODULE Spec2Model ----
(***************************************************************************)
(* Model of the GMC compliance scanner: the /audit request handler, the   *)
(* scanning engine (URL normalisation, seed fetch, page audit, product    *)
(* link discovery, thread-pool fan-out, scoring) in its two variants:     *)
(*   "web"      = src/gmc_web_app.py                                       *)
(*   "guardian" = src/gmc_guardian/app.py + src/gmc_guardian/engine.py     *)
(* Strings whose characters matter (URLs, hrefs) are sequences of         *)
(* one-character strings; page text is the set of keywords it contains.   *)
(***************************************************************************)
EXTENDS Integers, Sequences, FiniteSets, TLC

\* ------------------------------------------------------------------------
\* Character-sequence helpers (Python str methods used by the code)
\* ------------------------------------------------------------------------

None == "None"

\* s.startswith(p)
StartsWith(s, p) == Len(s) >= Len(p) /\ SubSeq(s, 1, Len(p)) = p

\* sub in s
Contains(s, sub) ==
    \E i \in 0..(Len(s) - Len(sub)) : SubSeq(s, i + 1, i + Len(sub)) = sub

IsSpace(c) == c = " "

\* s.lstrip() / s.rstrip() / s.strip()
RECURSIVE LStrip(_)
LStrip(s) == IF s # <<>> /\ IsSpace(Head(s)) THEN LStrip(Tail(s)) ELSE s

RECURSIVE RStrip(_)
RStrip(s) ==
    IF s # <<>> /\ IsSpace(s[Len(s)]) THEN RStrip(SubSeq(s, 1, Len(s) - 1)) ELSE s

Strip(s) == RStrip(LStrip(s))

\* s.lower(), on the characters the model uses
LowerChar(c) == IF c = "A" THEN "a" ELSE IF c = "B" THEN "b" ELSE c

Lower(s) == [i \in 1..Len(s) |-> LowerChar(s[i])]

\* s.rstrip('/')
RECURSIVE RStripSlash(_)
RStripSlash(s) ==
    IF s # <<>> /\ s[Len(s)] = "/" THEN RStripSlash(SubSeq(s, 1, Len(s) - 1)) ELSE s

HTTP == <<"h", "t", "t", "p", ":", "/", "/">>

HTTPS == <<"h", "t", "t", "p", "s", ":", "/", "/">>

\* _normalize_url with the trailing slashes stripped before the scheme is added
_normalize_url_strip_first(url) ==
    LET u == RStripSlash(Lower(Strip(url)))
    IN  IF ~(StartsWith(u, HTTP) \/ StartsWith(u, HTTPS)) THEN HTTPS \o u ELSE u

\* GMCScannerEngine._normalize_url
_normalize_url(url) ==
    LET u == Lower(Strip(url))
        v == IF ~(StartsWith(u, HTTP) \/ StartsWith(u, HTTPS)) THEN HTTPS \o u ELSE u
    IN  RStripSlash(v)

\* the part of an http(s) URL after "scheme:"
AfterScheme(url) ==
    IF StartsWith(url, <<"h", "t", "t", "p", "s", ":">>) THEN SubSeq(url, 7, Len(url))
    ELSE IF StartsWith(url, <<"h", "t", "t", "p", ":">>) THEN SubSeq(url, 6, Len(url))
    ELSE <<>>

RECURSIVE UntilSlash(_)
UntilSlash(s) ==
    IF s = <<>> \/ Head(s) = "/" THEN <<>> ELSE <<Head(s)>> \o UntilSlash(Tail(s))

\* urlparse(url).netloc
Netloc(url) ==
    LET rest == AfterScheme(url)
    IN  IF StartsWith(rest, <<"/", "/">>) THEN UntilSlash(SubSeq(rest, 3, Len(rest)))
        ELSE <<>>

\* urljoin(base, href) for absolute hrefs and for root-relative hrefs
urljoin(base, href) ==
    IF StartsWith(href, HTTP) \/ StartsWith(href, HTTPS) THEN href
    ELSE SubSeq(base, 1, Len(base) - Len(AfterScheme(base))) \o <<"/", "/">>
             \o Netloc(base) \o href

\* ------------------------------------------------------------------------
\* Configuration and rule catalogues
\* ------------------------------------------------------------------------

Variants == {"web", "guardian"}

\* MAX_PRODUCT_PAGES (web) / max_products default (guardian)
MAX_PRODUCT_PAGES == 5

\* ThreadPoolExecutor(max_workers=5)
max_workers == 5

\* per-failure penalty of _calculate_score (web) and of scan (guardian)
WebPenalty == 12

GuardianPenalty == 15

\* self.red_flags, in list order
red_flags(v) ==
    IF v = "web"
    THEN <<"guaranteed", "miracle", "100% safe", "no risk", "weight loss",
           "get rich", "free money">>
    ELSE <<"guaranteed", "miracle", "100% safe", "no risk", "weight loss",
           "get rich", "free money", "permanent results", "instant cure",
           "lowest price in the world", "#1 in the world", "official store">>

\* the policies dict of audit_page, in insertion order
policies ==
    << [name |-> "Refund",   keys |-> {"refund", "rueckgabe", "widerruf", "retour"}],
       [name |-> "Shipping", keys |-> {"shipping", "versand", "levering"}],
       [name |-> "Privacy",  keys |-> {"privacy", "datenschutz", "privacybeleid"}],
       [name |-> "Terms",    keys |-> {"terms", "agb", "voorwaarden"}],
       [name |-> "Legal",    keys |-> {"impressum", "legal notice", "colofon"}] >>

\* the schema markers and currency markers of the product branch
SchemaMarkers(v) ==
    IF v = "web"
    THEN {"\"@type\":\"product\"", "\"@type\": \"product\"", "schema.org/product"}
    ELSE {"\"@type\":\"product\"", "schema.org/product"}

CurrencyMarkers == {"euro sign", "eur", "$", "pound sign"}

\* ------------------------------------------------------------------------
\* Rule evaluation (analyze_text / analyze_content, audit_page)
\* A page body is [text, visible, anchors]: the catalogue keywords that
\* occur in the lowercased markup, the red-flag patterns that match the
\* visible text, and the hrefs of its anchors in document order.
\* ------------------------------------------------------------------------

Finding(kind, detail) == [kind |-> kind, detail |-> detail]

\* found = [flag for flag in self.red_flags if re.search(flag, text)]
FoundFlags(v, body) ==
    SelectSeq(red_flags(v), LAMBDA f : f \in body.visible)

\* analyze_text (web) / analyze_content (guardian): (verdict, reason)
analyze_text(v, body) ==
    LET found == FoundFlags(v, body)
    IN  IF found # <<>>
        THEN [verdict |-> "Risk",
              reason  |-> Finding(IF v = "web" THEN "Suspicious terms" ELSE "Flags",
                                  found)]
        ELSE [verdict |-> "Compliant",
              reason  |-> Finding(IF v = "web" THEN "No high-risk claims detected."
                                  ELSE "Safe", <<>>)]

RECURSIVE MissingPolicies(_, _)
MissingPolicies(ps, text) ==
    IF ps = <<>> THEN <<>>
    ELSE (IF Head(ps).keys \cap text = {}
          THEN <<Finding("Missing Policy", <<Head(ps).name>>)>> ELSE <<>>)
         \o MissingPolicies(Tail(ps), text)

\* the is_main branch of audit_page
MainIssues(v, body) ==
    MissingPolicies(policies, body.text)
    \o (IF "@" \notin body.text
        THEN <<Finding(IF v = "web" THEN "No contact email found"
                       ELSE "No Contact Email", <<>>)>>
        ELSE <<>>)

\* the product branch of audit_page
ProductIssues(v, body) ==
    (IF SchemaMarkers(v) \cap body.text = {}
     THEN <<Finding(IF v = "web" THEN "Missing JSON-LD Product Schema"
                    ELSE "Missing Schema", <<>>)>>
     ELSE <<>>)
    \o (IF CurrencyMarkers \cap body.text = {}
        THEN <<Finding(IF v = "web" THEN "Currency symbol missing near price"
                       ELSE "Missing Currency", <<>>)>>
        ELSE <<>>)

\* issues of a fetched page: web appends the risk reason last, guardian first
Issues(v, is_main, body) ==
    LET a == analyze_text(v, body)
        structural == IF is_main THEN MainIssues(v, body)
                      ELSE ProductIssues(v, body)
        risk == IF a.verdict = "Risk" THEN <<a.reason>> ELSE <<>>
    IN  IF v = "web" THEN structural \o risk ELSE risk \o structural

\* "; ".join(issues) if issues else "Compliant"
Details(issues) == IF issues # <<>> THEN issues ELSE <<Finding("Compliant", <<>>)>>

\* the dict returned by the try block of audit_page
PageRow(v, url, is_main, body) ==
    LET issues == Issues(v, is_main, body)
    IN  [url |-> url,
         type |-> IF is_main THEN "Main" ELSE "Product",
         status |-> IF issues = <<>> THEN "Pass" ELSE "Fail",
         text_compliance |-> analyze_text(v, body).verdict,
         details |-> Details(issues)]

\* the dict returned by the except block of audit_page
\* (guardian's has no text_compliance key)
ErrorRow(v, url, exc) ==
    IF v = "web"
    THEN [url |-> url, type |-> "Error", status |-> "Error",
          text_compliance |-> "N/A",
          details |-> <<Finding("Unreachable", <<exc>>)>>]
    ELSE [url |-> url, type |-> "Error", status |-> "Error",
          details |-> <<Finding(exc, <<>>)>>]

\* A response of session.get: exc is the exception it raised (None when it
\* returned), status_code and body are those of the returned response.
Response(exc, status_code, body) ==
    [exc |-> exc, status_code |-> status_code, body |-> body]

\* audit_page with an except clause that misses the HTTPError of
\* raise_for_status, which then leaves the function
audit_page_uncaught(v, url, is_main, resp) ==
    IF resp.exc # None THEN ErrorRow(v, url, resp.exc)
    ELSE IF resp.status_code >= 400 THEN [exception |-> "HTTPError"]
    ELSE PageRow(v, url, is_main, resp.body)

\* audit_page's outcome given what its session.get produced:
\* raise_for_status raises HTTPError for 4xx/5xx; every exception is caught
audit_page(v, url, is_main, resp) ==
    IF resp.exc # None THEN ErrorRow(v, url, resp.exc)
    ELSE IF resp.status_code >= 400 THEN ErrorRow(v, url, "HTTPError")
    ELSE PageRow(v, url, is_main, resp.body)

\* ------------------------------------------------------------------------
\* Product link discovery
\* ------------------------------------------------------------------------

PRODUCTS == <<"/", "p", "r", "o", "d", "u", "c", "t", "s", "/">>

PRODUCT == <<"/", "p", "r", "o", "d", "u", "c", "t", "/">>

PRODUCT_PREFIX == <<"/", "p", "r", "o", "d", "u", "c", "t">>

\* the condition under which get_product_links keeps an anchor (web)
WebKeeps(base_url, domain, href) ==
    LET full_url == urljoin(base_url, href)
    IN  /\ Contains(Netloc(full_url), domain)
        /\ (Contains(full_url, PRODUCTS) \/ Contains(full_url, PRODUCT))

\* the condition of the generator expression in scan (guardian)
GuardianKeeps(base_url, domain, href) ==
    /\ Contains(Netloc(urljoin(base_url, href)), domain)
    /\ Contains(href, PRODUCT_PREFIX)

\* the loop of get_product_links: add to the set, break at MAX_PRODUCT_PAGES
RECURSIVE WebLinkSet(_, _, _, _)
WebLinkSet(base_url, domain, anchors, links) ==
    IF anchors = <<>> THEN links
    ELSE LET added == IF WebKeeps(base_url, domain, Head(anchors))
                      THEN links \cup {urljoin(base_url, Head(anchors))}
                      ELSE links
         IN  IF Cardinality(added) >= MAX_PRODUCT_PAGES THEN added
             ELSE WebLinkSet(base_url, domain, Tail(anchors), added)

\* set(urljoin(...) for a in ... if ...) of scan
GuardianLinkSet(base_url, domain, anchors) ==
    { urljoin(base_url, anchors[i]) :
        i \in { j \in 1..Len(anchors) : GuardianKeeps(base_url, domain, anchors[j]) } }

\* list(a_set): a Python set of str iterates in an order that depends on the
\* process's hash seed, so every ordering of the elements is possible
RECURSIVE ListOfSet(_)
ListOfSet(S) ==
    IF S = {} THEN {<<>>}
    ELSE UNION { { <<x>> \o rest : rest \in ListOfSet(S \ {x}) } : x \in S }

\* a_list[:n]
Take(s, n) == SubSeq(s, 1, IF Len(s) < n THEN Len(s) ELSE n)

\* the lists get_product_links (web) / the links expression of scan
\* (guardian) can produce for a page
get_product_links(v, base_url, domain, body) ==
    IF v = "web"
    THEN ListOfSet(WebLinkSet(base_url, domain, body.anchors, {}))
    ELSE { Take(l, MAX_PRODUCT_PAGES) :
             l \in ListOfSet(GuardianLinkSet(base_url, domain, body.anchors)) }

\* ------------------------------------------------------------------------
\* Scoring and result collection
\* ------------------------------------------------------------------------

RECURSIVE CountStatus(_, _)
CountStatus(rows, status) ==
    IF rows = <<>> THEN 0
    ELSE (IF Head(rows).status = status THEN 1 ELSE 0) + CountStatus(Tail(rows), status)

Max(a, b) == IF a >= b THEN a ELSE b

\* _calculate_score (web) / the score expression of scan (guardian)
_calculate_score(v, rows) ==
    IF v = "web"
    THEN IF rows = <<>> THEN 0
         ELSE Max(0, 100 - CountStatus(rows, "Fail") * WebPenalty)
    ELSE Max(0, 100 - CountStatus(rows, "Fail") * GuardianPenalty)

\* results gathered last-submitted first
ExecutorMapReversed(futures) ==
    [i \in 1..Len(futures) |-> futures[Len(futures) + 1 - i].result]

\* list(executor.map(self.audit_page, links)): the results in submission order
ExecutorMap(futures) == [i \in 1..Len(futures) |-> futures[i].result]

\* ------------------------------------------------------------------------
\* The sites under audit (what a GET of the seed / of a product page can
\* produce) and the request arguments
\* ------------------------------------------------------------------------

\* number of distinct product anchors on the large home page
BigPageLinks == 6

Digits == <<"1", "2", "3", "4", "5", "6", "7", "8", "9">>

Body(text, visible, anchors) == [text |-> text, visible |-> visible, anchors |-> anchors]

AllPolicies == {"refund", "shipping", "privacy", "terms", "impressum", "@"}

\* every policy present; anchors: a product, the same product as an absolute
\* URL, a product of another site, a non-product page, a product on a host
\* that contains the seed host in its name
HomeFull ==
    Body(AllPolicies, {},
         << PRODUCTS \o <<"1">>,
            HTTPS \o <<"a">> \o PRODUCTS \o <<"1">>,
            HTTPS \o <<"c">> \o PRODUCTS \o <<"4">>,
            <<"/", "a", "b", "o", "u", "t">>,
            HTTPS \o <<"b", "a">> \o PRODUCTS \o <<"3">> >>)

\* only a German privacy notice, a red-flag claim, two products and a listing
HomeBare ==
    Body({"datenschutz"}, {"miracle"},
         << PRODUCT \o <<"2">>, PRODUCTS \o <<"1">>, PRODUCT_PREFIX \o <<"-", "l">> >>)

\* the body of a 404 response: no policy text, one "popular product" anchor
ErrorPage == Body({}, {}, << PRODUCTS \o <<"1">> >>)

HomeBig ==
    Body(AllPolicies, {},
         [i \in 1..BigPageLinks |-> PRODUCTS \o <<Digits[i]>>] \o << PRODUCTS \o <<"1">> >>)

ProdClean == Body({"schema.org/product", "$"}, {}, <<>>)

ProdSpaced == Body({"\"@type\": \"product\"", "eur"}, {}, <<>>)

ProdRisky == Body({"schema.org/product", "$"}, {"guaranteed", "100% safe"}, <<>>)

EmptyBody == Body({}, {}, <<>>)

SmallSite ==
    [seed    |-> { Response(None, 200, HomeFull), Response(None, 200, HomeBare),
                   Response(None, 404, ErrorPage),
                   Response("ConnectionError", 0, EmptyBody),
                   Response("Timeout", 0, EmptyBody) },
     product |-> { Response(None, 200, ProdClean), Response(None, 200, ProdSpaced),
                   Response(None, 200, ProdRisky), Response(None, 404, ErrorPage),
                   Response("ConnectionError", 0, EmptyBody),
                   Response("Timeout", 0, EmptyBody) }]

BigSite ==
    [seed    |-> { Response(None, 200, HomeBig) },
     product |-> { Response(None, 200, ProdClean) }]

Worlds == {SmallSite, BigSite}

\* request.args.get('url'): absent, or the string given
Arg(given, value) == [given |-> given, value |-> value]

UrlArgs ==
    { Arg(FALSE, <<>>), Arg(TRUE, <<>>), Arg(TRUE, <<" ">>),
      Arg(TRUE, <<"a">>), Arg(TRUE, <<" ", "A", "/">>) }

\* ------------------------------------------------------------------------
\* State
\* ------------------------------------------------------------------------

VARIABLES
    variant,        \* which application serves the request
    world,          \* the site the seed URL points at
    url,            \* the url argument of the /audit request
    pc,             \* position of the request handler
    base_url,       \* engine.base_url
    domain,         \* engine.domain
    main_res,       \* main_res of run_full_audit / scan
    main_data,      \* main_data of run_full_audit / scan
    product_links,  \* product_links / links
    futures,        \* the executor's work items, in submission order
    response,       \* the HTTP response of /audit
    net_log,        \* URLs of the GET requests issued so far, in order
    eval_src,       \* index in net_log of the GET whose body fed main_data
    links_src,      \* index in net_log of the GET whose body fed discovery
    seed_outcomes,  \* how each GET of the seed URL ended, in order
    overtaken       \* a work item finished before one submitted earlier

vars == << variant, world, url, pc, base_url, domain, main_res, main_data,
           product_links, futures, response, net_log, eval_src, links_src,
           seed_outcomes, overtaken >>

NoRow == [status |-> "pending"]

NoResponse == [status |-> 0, body |-> [pending |-> TRUE]]

Init ==
    /\ variant \in Variants
    /\ world \in Worlds
    /\ url = Arg(FALSE, <<>>)
    /\ pc = "idle"
    /\ base_url = <<>>
    /\ domain = <<>>
    /\ main_res = Response(None, 0, EmptyBody)
    /\ main_data = NoRow
    /\ product_links = <<>>
    /\ futures = <<>>
    /\ response = NoResponse
    /\ net_log = <<>>
    /\ eval_src = 0
    /\ links_src = 0
    /\ seed_outcomes = <<>>
    /\ overtaken = FALSE

\* largest candidate list handed to the executor in PoolInit
MaxCandidates == 7

\* The engine of gmc_guardian/engine.py takes max_products as a constructor
\* argument (default 5) while its pool is fixed at max_workers=5.  PoolInit is
\* scan() at the entry of its with block for GMCScannerEngine("a",
\* max_products=n) on a home page with n product anchors: both seed GETs
\* answered 200 and the n links are submitted.
PoolInit ==
    \E n \in 0..MaxCandidates :
        LET base == HTTPS \o <<"a">>
            home == Body(AllPolicies, {}, [i \in 1..n |-> PRODUCTS \o <<Digits[i]>>])
        IN  /\ variant = "guardian"
            /\ world = BigSite
            /\ url = Arg(TRUE, <<"a">>)
            /\ pc = "pool"
            /\ base_url = base
            /\ domain = Netloc(base)
            /\ main_res = Response(None, 200, home)
            /\ main_data = audit_page("guardian", base, TRUE, Response(None, 200, home))
            /\ product_links = [i \in 1..n |-> urljoin(base, home.anchors[i])]
            /\ futures = [i \in 1..n |->
                            [state |-> "queued", outcome |-> "none", result |-> NoRow]]
            /\ response = NoResponse
            /\ net_log = <<base, base>>
            /\ eval_src = 2
            /\ links_src = 1
            /\ seed_outcomes = <<"ok", "ok">>
            /\ overtaken = FALSE

\* how a GET ended: the exception it raised, or "ok" / "HTTPError" by the
\* status code that raise_for_status tests
Outcome(r) ==
    IF r.exc # None THEN r.exc ELSE IF r.status_code >= 400 THEN "HTTPError" ELSE "ok"

\* jsonify(...) with the given HTTP status
Reply(status, body) == [status |-> status, body |-> body]

\* session.get raises InvalidURL, without sending anything, for a URL with no host
Sendable(u) == Netloc(u) # <<>>

\* ------------------------------------------------------------------------
\* Actions
\* ------------------------------------------------------------------------

\* audit(): the /audit route up to the construction of the engine.
\* web answers 400 when the argument is missing or empty; guardian passes
\* whatever it got to the constructor, where None.strip() raises.
Audit(u) ==
    /\ pc = "idle"
    /\ url' = u
    /\ IF variant = "web" /\ (~u.given \/ u.value = <<>>)
       THEN /\ response' = Reply(400, [error |-> "URL required"])
            /\ pc' = "done"
            /\ UNCHANGED << base_url, domain >>
       ELSE IF ~u.given
       THEN /\ response' = Reply(500, [fault |-> "AttributeError"])
            /\ pc' = "done"
            /\ UNCHANGED << base_url, domain >>
       ELSE /\ base_url' = _normalize_url(u.value)
            /\ domain' = Netloc(_normalize_url(u.value))
            /\ pc' = "get_main"
            /\ UNCHANGED response
    /\ UNCHANGED << variant, world, main_res, main_data, product_links, futures,
                    net_log, eval_src, links_src, seed_outcomes, overtaken >>

\* main_res = self.session.get(self.base_url, ...): an exception here reaches
\* the outer except of run_full_audit / scan
GetMain ==
    /\ pc = "get_main"
    /\ IF ~Sendable(base_url)
       THEN /\ response' = Reply(200, [error |-> "InvalidURL"])
            /\ pc' = "done"
            /\ UNCHANGED << main_res, net_log, seed_outcomes >>
       ELSE \E r \in world.seed :
            /\ net_log' = Append(net_log, base_url)
            /\ seed_outcomes' = Append(seed_outcomes, Outcome(r))
            /\ IF r.exc # None
               THEN /\ response' = Reply(200, [error |-> r.exc])
                    /\ pc' = "done"
                    /\ UNCHANGED main_res
               ELSE /\ main_res' = r
                    /\ pc' = "audit_main"
                    /\ UNCHANGED response
    /\ UNCHANGED << variant, world, url, base_url, domain, main_data, product_links,
                    futures, eval_src, links_src, overtaken >>

\* main_data = self.audit_page(self.base_url, is_main=True): its own GET.
\* The call is inside the try block: an exception leaving audit_page would
\* reach the outer except.
AuditMain ==
    /\ pc = "audit_main"
    /\ \E r \in world.seed :
        LET row == audit_page(variant, base_url, TRUE, r)
        IN  /\ net_log' = Append(net_log, base_url)
            /\ seed_outcomes' = Append(seed_outcomes, Outcome(r))
            /\ IF "exception" \in DOMAIN row
               THEN /\ response' = Reply(200, [error |-> row.exception])
                    /\ pc' = "done"
                    /\ UNCHANGED << main_data, eval_src >>
               ELSE /\ main_data' = row
                    /\ eval_src' = Len(net_log) + 1
                    /\ pc' = "links"
                    /\ UNCHANGED response
    /\ UNCHANGED << variant, world, url, base_url, domain, main_res, product_links,
                    futures, links_src, overtaken >>

\* product_links = self.get_product_links(main_res.text), then the submission
\* of one work item per link by executor.map
GetProductLinks ==
    /\ pc = "links"
    /\ \E l \in get_product_links(variant, base_url, domain, main_res.body) :
        /\ product_links' = l
        /\ futures' = [i \in 1..Len(l) |->
                          [state |-> "queued", outcome |-> "none", result |-> NoRow]]
    /\ links_src' = 1
    /\ pc' = "pool"
    /\ UNCHANGED << variant, world, url, base_url, domain, main_res, main_data,
                    response, net_log, eval_src, seed_outcomes, overtaken >>

Running == { i \in 1..Len(futures) : futures[i].state = "running" }

Queued == { i \in 1..Len(futures) : futures[i].state = "queued" }

\* a pool that starts a thread for every work item, whatever max_workers says
TaskStartUncapped(i) ==
    /\ pc = "pool"
    /\ i \in Queued
    /\ \A j \in Queued : i <= j
    /\ futures' = [futures EXCEPT ![i].state = "running"]
    /\ net_log' = Append(net_log, product_links[i])
    /\ UNCHANGED << variant, world, url, pc, base_url, domain, main_res, main_data,
                    product_links, response, eval_src, links_src, seed_outcomes,
                    overtaken >>

\* a worker thread takes the oldest queued work item and sends its GET
TaskStart(i) ==
    /\ pc = "pool"
    /\ i \in Queued
    /\ \A j \in Queued : i <= j
    /\ Cardinality(Running) < max_workers
    /\ futures' = [futures EXCEPT ![i].state = "running"]
    /\ net_log' = Append(net_log, product_links[i])
    /\ UNCHANGED << variant, world, url, pc, base_url, domain, main_res, main_data,
                    product_links, response, eval_src, links_src, seed_outcomes,
                    overtaken >>

\* the GET of a work item completes and audit_page returns its row
TaskFinish(i) ==
    /\ pc = "pool"
    /\ i \in Running
    /\ \E r \in world.product :
        futures' = [futures EXCEPT
                      ![i] = [state |-> "done", outcome |-> Outcome(r),
                              result |-> audit_page(variant, product_links[i], FALSE, r)]]
    /\ overtaken' = (overtaken \/ \E j \in 1..(i - 1) : futures[j].state # "done")
    /\ UNCHANGED << variant, world, url, pc, base_url, domain, main_res, main_data,
                    product_links, response, net_log, eval_src, links_src,
                    seed_outcomes >>

\* the report dict of run_full_audit (with timestamp) / of scan
Report(v, dom, score, rows) ==
    IF v = "web"
    THEN [domain |-> dom, score |-> score, rows |-> rows, timestamp |-> "now"]
    ELSE [domain |-> dom, score |-> score, rows |-> rows]

\* the with block ends when every work item is done; the results are
\* collected, scored and returned. A work item that raised re-raises from
\* executor.map into the outer except.
Return ==
    /\ pc = "pool"
    /\ \A i \in 1..Len(futures) : futures[i].state = "done"
    /\ LET results == ExecutorMap(futures)
           all_rows == <<main_data>> \o results
       IN  IF \E i \in 1..Len(results) : "exception" \in DOMAIN results[i]
           THEN response' = Reply(200, [error |-> "exception"])
           ELSE response' = Reply(200, Report(variant, domain,
                                              _calculate_score(variant, all_rows),
                                              all_rows))
    /\ pc' = "done"
    /\ UNCHANGED << variant, world, url, base_url, domain, main_res, main_data,
                    product_links, futures, net_log, eval_src, links_src,
                    seed_outcomes, overtaken >>

Next ==
    \/ \E u \in UrlArgs : Audit(u)
    \/ GetMain
    \/ AuditMain
    \/ GetProductLinks
    \/ \E i \in 1..MaxCandidates : TaskStart(i)
    \/ \E i \in 1..MaxCandidates : TaskFinish(i)
    \/ Return

Spec == Init /\ [][Next]_vars

\* ------------------------------------------------------------------------
\* The constructor alone: an engine is built from a url string, and a second
\* engine from the first one's base_url
\* ------------------------------------------------------------------------

\* longest url body tried
MaxUrlLen == 3

UrlChars == {" ", "/", "a", "A"}

\* url strings: optional leading blank, optional scheme, then up to
\* MaxUrlLen characters
NormInputs ==
    { pre \o scheme \o body :
        pre \in {<<>>, <<" ">>},
        scheme \in {<<>>, HTTP, HTTPS},
        body \in UNION { [1..k -> UrlChars] : k \in 0..MaxUrlLen } }

NormInit == Init /\ world = BigSite

\* GMCScannerEngine(u): __init__ sets base_url and domain
Construct(u) ==
    /\ pc = "idle"
    /\ url' = Arg(TRUE, u)
    /\ base_url' = _normalize_url(u)
    /\ domain' = Netloc(_normalize_url(u))
    /\ pc' = "built"
    /\ UNCHANGED << variant, world, main_res, main_data, product_links, futures,
                    response, net_log, eval_src, links_src, seed_outcomes, overtaken >>

\* GMCScannerEngine(engine.base_url): an engine built from a normalised URL
Rebuild ==
    /\ pc = "built"
    /\ url' = Arg(TRUE, base_url)
    /\ base_url' = _normalize_url(base_url)
    /\ domain' = Netloc(_normalize_url(base_url))
    /\ pc' = "rebuilt"
    /\ UNCHANGED << variant, world, main_res, main_data, product_links, futures,
                    response, net_log, eval_src, links_src, seed_outcomes, overtaken >>

NormNext ==
    \/ \E u \in NormInputs : Construct(u)
    \/ Rebuild

NormSpec == NormInit /\ [][NormNext]_vars

\* the audit as the applications run it, and the engine's pool entered with
\* candidate lists of any length up to MaxCandidates
PoolSpec == (Init \/ PoolInit) /\ [][Next]_vars

TypeOK == pc \in {"idle", "get_main", "audit_main", "links", "pool", "done"}

\* ------------------------------------------------------------------------
\* Properties
\* ------------------------------------------------------------------------

IsReport == pc = "done" /\ "rows" \in DOMAIN response.body

Penalty(v) == IF v = "web" THEN WebPenalty ELSE GuardianPenalty

\* the seed argument normalises to a URL that has a host
ValidSeed == url.given /\ Sendable(_normalize_url(url.value))

\* the findings a row carries: its details, unless they are the "Compliant" text
Findings(row) == IF row.details = <<Finding("Compliant", <<>>)>> THEN <<>> ELSE row.details

RECURSIVE RowsWithFindings(_)
RowsWithFindings(rows) ==
    IF rows = <<>> THEN 0
    ELSE (IF Findings(Head(rows)) # <<>> THEN 1 ELSE 0) + RowsWithFindings(Tail(rows))

RECURSIVE Count(_, _)
Count(s, x) ==
    IF s = <<>> THEN 0 ELSE (IF Head(s) = x THEN 1 ELSE 0) + Count(Tail(s), x)

\* C1: when the seed URL is well-formed and every GET of it ended in a
\* connection error, the audit returns a report with exactly one row, the
\* seed's, of status Error, and a score of 100 minus one penalty.
C1_UnreachableSeedReport ==
    ( /\ pc = "done"
      /\ ValidSeed
      /\ seed_outcomes # <<>>
      /\ \A i \in 1..Len(seed_outcomes) : seed_outcomes[i] = "ConnectionError" )
    => ( /\ IsReport
         /\ Len(response.body.rows) = 1
         /\ response.body.rows[1].url = base_url
         /\ response.body.rows[1].status = "Error"
         /\ response.body.score = 100 - Penalty(variant) )

\* C2: for a valid seed URL the finished audit always answers with a report
\* that has domain, rows and a score, the score an integer in 0..100.
C2_AlwaysScoredReport ==
    (pc = "done" /\ ValidSeed)
    => ( /\ {"domain", "rows", "score"} \subseteq DOMAIN response.body
         /\ response.body.score \in 0..100 )

\* C3: the score is max(0, 100 - weight * failCount), failCount being the
\* number of rows that carry at least one finding, Error rows included.
C3_ScoreCountsFindingRows ==
    IsReport =>
        response.body.score =
            Max(0, 100 - Penalty(variant) * RowsWithFindings(response.body.rows))

\* C4: whatever the order in which the product fetches complete, the report's
\* rows are the seed row followed by one row per candidate, the i-th product
\* row being the row computed for the i-th candidate of the candidate list.
C4_RowsInCandidateOrder ==
    IsReport =>
        /\ Len(response.body.rows) = 1 + Len(product_links)
        /\ response.body.rows[1] = main_data
        /\ \A i \in 1..Len(product_links) :
              /\ response.body.rows[i + 1].url = product_links[i]
              /\ response.body.rows[i + 1] = futures[i].result

\* a report of three or more product rows whose fetches did not complete in
\* the order they were submitted
C4_Witness ==
    /\ IsReport
    /\ Len(product_links) >= 3
    /\ overtaken
    /\ \A i \in 1..Len(product_links) : response.body.rows[i + 1].url = product_links[i]

\* the URLs of the anchors the variant keeps, each once, in the document
\* order of its first occurrence
RECURSIVE FirstSeen(_, _, _, _, _)
FirstSeen(v, b, d, anchors, acc) ==
    IF anchors = <<>> THEN acc
    ELSE LET h == Head(anchors)
             u == urljoin(b, h)
             keeps == IF v = "web" THEN WebKeeps(b, d, h) ELSE GuardianKeeps(b, d, h)
         IN  FirstSeen(v, b, d, Tail(anchors),
                       IF keeps /\ Count(acc, u) = 0 THEN Append(acc, u) ELSE acc)

DiscoveryDone == links_src = 1

\* C5: the candidate list has no duplicates, at most MAX_PRODUCT_PAGES
\* entries, and is the first MAX_PRODUCT_PAGES distinct qualifying links of
\* the page in the document order of their first occurrence.
C5_FirstDistinctInDocumentOrder ==
    DiscoveryDone =>
        /\ \A i, j \in 1..Len(product_links) :
              product_links[i] = product_links[j] => i = j
        /\ Len(product_links) <= MAX_PRODUCT_PAGES
        /\ product_links =
              Take(FirstSeen(variant, base_url, domain, main_res.body.anchors, <<>>),
                   MAX_PRODUCT_PAGES)

\* C6: a product fetch that raises, times out or returns an HTTP error
\* status turns only its own row into an Error row: every candidate is
\* fetched exactly once and has exactly one row, at its place, a page that
\* was fetched successfully has a Product row with status Pass or Fail, and
\* the audit answers with a report.
C6_FailureIsolated ==
    (pc = "done" /\ DiscoveryDone) =>
        /\ IsReport
        /\ Len(response.body.rows) = 1 + Len(product_links)
        /\ \A i \in 1..Len(product_links) :
              /\ Count(net_log, product_links[i]) = 1
              /\ response.body.rows[i + 1].url = product_links[i]
              /\ IF futures[i].outcome = "ok"
                 THEN /\ response.body.rows[i + 1].type = "Product"
                      /\ response.body.rows[i + 1].status \in {"Pass", "Fail"}
                 ELSE response.body.rows[i + 1].status = "Error"

\* a report in which one product fetch failed, giving an Error row, and
\* another product page was fetched and passed
C6_Witness ==
    /\ IsReport
    /\ \E i, j \in 1..Len(product_links) :
          /\ futures[i].outcome \in {"ConnectionError", "Timeout", "HTTPError"}
          /\ response.body.rows[i + 1].status = "Error"
          /\ futures[j].outcome = "ok"
          /\ response.body.rows[j + 1].status = "Pass"

\* C7: in a report, a row of an unreachable page carries exactly one finding
\* and text_compliance "N/A"; every other row carries text_compliance
\* "Compliant" or "Risk".
C7_UnreachableRowShape ==
    IsReport =>
        \A i \in 1..Len(response.body.rows) :
            LET row == response.body.rows[i]
            IN  IF row.status = "Error"
                THEN /\ Len(Findings(row)) = 1
                     /\ "text_compliance" \in DOMAIN row
                     /\ row.text_compliance = "N/A"
                ELSE /\ "text_compliance" \in DOMAIN row
                     /\ row.text_compliance \in {"Compliant", "Risk"}

\* C8: when the seed page was not fetched successfully, so that the seed row
\* is an Error row, the candidate list is empty, no product page is
\* requested and the report has no product rows.
C8_UnreachableSeedNoCandidates ==
    (pc \in {"pool", "done"} /\ DiscoveryDone /\ main_data.status = "Error") =>
        /\ product_links = <<>>
        /\ Len(net_log) = Len(seed_outcomes)
        /\ (IsReport => Len(response.body.rows) = 1)

\* C9: a seed argument that is missing, empty or only whitespace is answered
\* with a client error, and no GET is issued for it.
C9_UnusableSeedRejected ==
    (pc = "done" /\ (~url.given \/ Strip(url.value) = <<>>)) =>
        /\ response.status \in 400..499
        /\ net_log = <<>>

\* C10: in an audit that returns a report the seed URL is requested exactly
\* once, and the seed row and the candidate list come from that one response.
C10_SeedFetchedOnce ==
    IsReport =>
        /\ Count(net_log, base_url) = 1
        /\ eval_src = links_src

\* s.endswith(suf)
EndsWith(s, suf) == Len(s) >= Len(suf) /\ SubSeq(s, Len(s) - Len(suf) + 1, Len(s)) = suf

\* host h is the seed host d or a subdomain of it
SameSite(h, d) == h = d \/ EndsWith(h, <<".">> \o d)

\* the path of an http(s) URL: what follows "//" and the host
PathOf(u) ==
    LET rest == AfterScheme(u)
    IN  SubSeq(rest, 3 + Len(Netloc(u)), Len(rest))

\* C11: every candidate's host is the seed host or a subdomain of it, and its
\* path contains /product/ or /products/; a link on a host that only contains
\* the seed host as a substring is not a candidate.
C11_SameSiteProductLinks ==
    DiscoveryDone =>
        \A i \in 1..Len(product_links) :
            /\ SameSite(Netloc(product_links[i]), domain)
            /\ \/ Contains(PathOf(product_links[i]), PRODUCT)
               \/ Contains(PathOf(product_links[i]), PRODUCTS)

\* C12: at every point at most max_workers (5) product GETs are in flight,
\* for any number of candidates, and a product GET is only sent once the seed
\* page has been fetched and evaluated (main_data is set).
C12_BoundedInFlight ==
    /\ Cardinality(Running) <= max_workers
    /\ (\E i \in 1..Len(net_log) : net_log[i] # base_url) =>
          /\ pc \in {"pool", "done"}
          /\ main_data # NoRow
          /\ eval_src # 0
          /\ Len(seed_outcomes) = 2

\* five product GETs in flight while a further candidate waits in the queue
C12_Witness ==
    /\ pc = "pool"
    /\ Cardinality(Running) = max_workers
    /\ Queued # {}
    /\ main_data # NoRow

\* a normalised URL that is more than a bare scheme and has no trailing blank
Usable(w) ==
    /\ w # <<>>
    /\ ~IsSpace(w[Len(w)])
    /\ w \notin { <<"h", "t", "t", "p", ":">>, <<"h", "t", "t", "p", "s", ":">> }

\* C13 as stated: normalising a normalised URL changes nothing, for every
\* input string.
C13_NormalizeIdempotent ==
    pc = "rebuilt" => base_url = url.value

\* C13 as amended: normalising a normalised URL changes nothing when the
\* normalised URL is not the bare "http:" / "https:" and does not end in
\* whitespace.
C13_NormalizeIdempotentOnUsable ==
    (pc = "rebuilt" /\ Usable(url.value)) => base_url = url.value

\* an engine rebuilt from a normalised URL with a host, unchanged
C13_Witness ==
    /\ pc = "rebuilt"
    /\ Usable(url.value)
    /\ Netloc(url.value) # <<>>
    /\ base_url = url.value
    /\ domain = Netloc(url.value)

====
